---- MODULE Spec2Model ----
(***************************************************************************)
(* The HTTP adapter of autohost (src/http/adapter.js): the per-request     *)
(* dispatch pipeline registered by wireupAction.  A request is gated by    *)
(* the asynchronous permission check (checkPermissionFor), instrumented    *)
(* with counters and timers, and the action handler's outcome is handed    *)
(* to the response envelope by respond.                                    *)
(*                                                                         *)
(* Node runs every callback to completion, so each callback of the source  *)
(* is one atomic action; requests interleave between callbacks.            *)
(***************************************************************************)
EXTENDS Integers, Sequences, FiniteSets, TLC

\* Number of concurrent requests to the one wired route.
NumReqs == 2

Reqs == 1..NumReqs

VARIABLES
    wired,          \* the action being wired: its inputs and its computed url
    auth,           \* state.auth: is an authorization provider configured
    handleErrors,   \* meta.handleErrors: absorb (TRUE) or propagate (FALSE)
    pc,             \* position of each request in the pipeline
    log,            \* per request: counter records, handler calls and 403s, in order
    provider,       \* per request: state of the provider's promise
    pass,           \* per request: value the gate's promise resolved with
    result,         \* per request: var result of respond
    envelope,       \* per request: whose req/res the envelope of respond holds
    deferred,       \* per request: state of the handler's returned promise
    returned,       \* per request: arguments of envelope.handleReturn, in order
    headerSent,     \* per request: res._headerSent
    finishListener, \* per request: the once( 'finish' ) listener is attached
    finished,       \* per request: the response emitted 'finish'
    apiDuration,    \* per request: records of the HTTP_API_DURATION timer
    escaped         \* per request: where an uncaught exception went

vars == <<wired, auth, handleErrors, pc, log, provider, pass, result, envelope,
          deferred, returned, headerSent, finishListener, finished,
          apiDuration, escaped>>

(***************************************************************************)
(* JavaScript values.  A handler returns nothing ("undefined"), a falsy    *)
(* value such as 0 or false ("falsy"), an object ("data") or a promise     *)
(* ("promise"); it throws an Error object ("error").  A promise settles     *)
(* with one of the non-promise values.                                     *)
(***************************************************************************)
HandlerBehaviours == {"throw", "undefined", "falsy", "data", "promise"}

SettledValues == {"data", "error"}

\* if ( result )
Truthy(v) == v \notin {"undefined", "falsy"}

\* if ( result.then )
HasThen(v) == v = "promise"

\* What the provider's checkPermission does when called.
ProviderBehaviours == {"throws", "promise"}

\* How the provider's promise settles.
ProviderOutcomes == {"true", "false", "rejected"}

\* res.status( 403 ).send( 'User lacks sufficient permissions' )
Forbidden == "403 User lacks sufficient permissions"

Count(s, e) == Cardinality({i \in DOMAIN s : s[i] = e})

\* What request r has recorded and done so far.
attempts(r) == Count(log[r], "HTTP_AUTHORIZATION_ATTEMPTS")

grants(r) == Count(log[r], "HTTP_AUTHORIZATION_GRANTED")

rejects(r) == Count(log[r], "HTTP_AUTHORIZATION_REJECTED")

authErrors(r) == Count(log[r], "HTTP_AUTHORIZATION_ERRORS")

handlerCalls(r) == Count(log[r], "HANDLE")

forbidden(r) == Count(log[r], Forbidden)

authDurations(r) == Count(log[r], "HTTP_AUTHORIZATION_DURATION")

----------------------------------------------------------------------------
(***************************************************************************)
(* Wiring: the url of an action.  A string is a sequence of characters;    *)
(* Undefined is the value of a property that is not set.                   *)
(***************************************************************************)
\* Longest action.url drawn as input.
MaxUrlLen == 4

Undefined == <<"undefined">>

\* x || ''
OrEmpty(x) == IF x = Undefined THEN <<>> ELSE x

\* The default api prefix, 'api'.
Api == <<"a", "p", "i">>

\* s.indexOf( t ): where t first occurs in s, counted from 0; -1 if nowhere.
IndexOf(s, t) ==
    LET at == {i \in 0..(Len(s) - Len(t)) : SubSeq(s, i + 1, i + Len(t)) = t}
    IN IF at = {} THEN -1 ELSE CHOOSE i \in at : \A j \in at : i <= j

\* A part of a url without one leading and one trailing slash.
StripSlashes(part) ==
    LET a == IF Len(part) > 0 /\ part[1] = "/" THEN Tail(part) ELSE part
    IN IF Len(a) > 0 /\ a[Len(a)] = "/" THEN SubSeq(a, 1, Len(a) - 1) ELSE a

RECURSIVE JoinParts(_)
JoinParts(parts) ==
    IF parts = <<>>
    THEN <<>>
    ELSE LET c == StripSlashes(Head(parts))
         IN (IF c = <<>> THEN <<>> ELSE <<"/">> \o c) \o JoinParts(Tail(parts))

(***************************************************************************)
(* state.http.buildUrl: the transport's url join.  Empty parts are left    *)
(* out and the others are joined by single slashes after a leading one.    *)
(***************************************************************************)
buildUrl(parts) ==
    IF JoinParts(parts) = <<>> THEN <<"/">> ELSE JoinParts(parts)

\* regex.prefix( prefix, pattern ): the pattern with the prefix before it.
regexPrefix(prefix, pattern) == prefix \o pattern

\* hasPrefix: does url begin with the configured urlPrefix and apiPrefix.
hasPrefix(w, url) ==
    LET prefix == buildUrl(<<OrEmpty(w.configUrlPrefix),
                             OrEmpty(w.configApiPrefix)>>)
    IN IndexOf(url, prefix) = 0

\* Mutant: the resource name is left out only when action.url begins with it.
resourcePrefix_OnlyIndexZero(resourceName, actionUrl) ==
    LET resourceIndex == IF actionUrl # <<>> /\ actionUrl # Undefined
                         THEN IndexOf(actionUrl, resourceName) ELSE -1
    IN IF resourceIndex = 0 THEN <<>> ELSE resourceName

\* The resourcePrefix of buildActionUrl's default heuristic.
resourcePrefix(resourceName, actionUrl) ==
    LET resourceIndex == IF actionUrl # <<>> /\ actionUrl # Undefined
                         THEN IndexOf(actionUrl, resourceName) ELSE -1
    IN IF resourceIndex = 0 \/ resourceIndex = 1 THEN <<>> ELSE resourceName

\* The api prefix of a resource: its own, else the config's, else 'api'.
apiPrefix(w) ==
    IF w.resourceApiPrefix # Undefined
    THEN w.resourceApiPrefix
    ELSE IF w.configApiPrefix = Undefined THEN Api ELSE w.configApiPrefix

buildActionUrl(w) ==
    LET prefix == apiPrefix(w) IN
    IF w.isRegExp
    THEN regexPrefix(buildUrl(<<OrEmpty(w.configUrlPrefix), prefix>>),
                     w.actionUrl)
    ELSE IF w.hasStrategy
    THEN LET url == w.strategyUrl
             p == IF hasPrefix(w, url) THEN <<>> ELSE prefix
         IN buildUrl(<<p, url>>)
    ELSE buildUrl(<<prefix, OrEmpty(w.resourceUrlPrefix),
                    resourcePrefix(w.resourceName, w.actionUrl),
                    OrEmpty(w.actionUrl)>>)

\* The path segments of a url: what stands between its slashes.
RECURSIVE Segments(_)
Segments(s) ==
    IF s = <<>>
    THEN <<>>
    ELSE IF Head(s) = "/"
    THEN Segments(Tail(s))
    ELSE LET slashes == {i \in 1..Len(s) : s[i] = "/"}
             n == IF slashes = {} THEN Len(s) + 1
                  ELSE CHOOSE i \in slashes : \A j \in slashes : i <= j
         IN <<SubSeq(s, 1, n - 1)>> \o Segments(SubSeq(s, n, Len(s)))

\* Inputs of wiring.
ResourceNames == {<<"w">>, <<"w", "x">>}

RECURSIVE StringsUpTo(_, _)
StringsUpTo(chars, n) ==
    IF n = 0
    THEN {<<>>}
    ELSE LET shorter == StringsUpTo(chars, n - 1)
         IN shorter \cup {Append(t, c) : t \in shorter, c \in chars}

\* Action urls: paths without empty segments, and the url that is not set.
ActionUrls ==
    {u \in StringsUpTo({"/", "w", "x"}, MaxUrlLen) :
        \A i \in 1..(Len(u) - 1) : ~(u[i] = "/" /\ u[i + 1] = "/")}
    \cup {Undefined}

\* Urls a custom strategy returns: one or two segments, and one bare name.
StrategySegments == {Api, <<"a">>, <<"v">>, <<"u">>, <<"t">>}

StrategyUrls ==
    {<<"t">>}
    \cup {<<"/">> \o a : a \in StrategySegments}
    \cup {<<"/">> \o a \o <<"/">> \o b : a, b \in StrategySegments}

NoRoute ==
    [resourceName |-> <<"w">>, actionUrl |-> <<>>, isRegExp |-> FALSE,
     resourceApiPrefix |-> Undefined, resourceUrlPrefix |-> Undefined,
     configApiPrefix |-> Undefined, configUrlPrefix |-> Undefined,
     hasStrategy |-> FALSE, strategyUrl |-> Undefined,
     url |-> Undefined, done |-> FALSE]

DefaultInputs ==
    {[NoRoute EXCEPT !.resourceName = n, !.actionUrl = u,
                     !.resourceApiPrefix = rp] :
        n \in ResourceNames, u \in ActionUrls, rp \in {Undefined, <<"v">>}}

RegExpInputs ==
    {[NoRoute EXCEPT !.isRegExp = TRUE, !.actionUrl = <<"/", "w", "*">>,
                     !.resourceApiPrefix = rp, !.configUrlPrefix = up] :
        rp \in {Undefined, <<"v">>}, up \in {Undefined, <<"/", "u">>}}

StrategyInputs ==
    {[NoRoute EXCEPT !.hasStrategy = TRUE, !.strategyUrl = u,
                     !.resourceApiPrefix = rp, !.configApiPrefix = cp,
                     !.configUrlPrefix = up] :
        u \in StrategyUrls, rp \in {Undefined, <<"v">>, <<"a">>},
        cp \in {Undefined, <<"a">>}, up \in {Undefined, <<"/", "u">>}}

WiringInputs == DefaultInputs \cup RegExpInputs \cup StrategyInputs

\* getActionMetadata and state.http.route: the action gets its url and route.
wire(w) == [w EXCEPT !.url = buildActionUrl(w), !.done = TRUE]

\* The route is wired; no request has come in yet.
Init ==
    /\ wired = wire(NoRoute)
    /\ auth \in BOOLEAN
    /\ handleErrors \in BOOLEAN
    /\ pc = [r \in Reqs |-> "idle"]
    /\ log = [r \in Reqs |-> <<>>]
    /\ provider = [r \in Reqs |-> "none"]
    /\ pass = [r \in Reqs |-> "none"]
    /\ result = [r \in Reqs |-> "none"]
    /\ envelope = [r \in Reqs |-> 0]
    /\ deferred = [r \in Reqs |-> "none"]
    /\ returned = [r \in Reqs |-> <<>>]
    /\ headerSent = [r \in Reqs |-> FALSE]
    /\ finishListener = [r \in Reqs |-> FALSE]
    /\ finished = [r \in Reqs |-> FALSE]
    /\ apiDuration = [r \in Reqs |-> 0]
    /\ escaped = [r \in Reqs |-> "none"]

----------------------------------------------------------------------------
\* The counter closures of getActionMetadata.

authAttempted(lg) == Append(lg, "HTTP_AUTHORIZATION_ATTEMPTS")

\* Mutant: the grant closure records the rejection counter.
authGranted_WrongCounter(lg) == Append(lg, "HTTP_AUTHORIZATION_REJECTED")

\* Mutant: the grant closure records nothing.
authGranted_NotRecorded(lg) == lg

authGranted(lg) == Append(lg, "HTTP_AUTHORIZATION_GRANTED")

\* Mutant: the reject closure records the grant counter.
authRejected_WrongCounter(lg) == Append(lg, "HTTP_AUTHORIZATION_GRANTED")

authRejected(lg) == Append(lg, "HTTP_AUTHORIZATION_REJECTED")

----------------------------------------------------------------------------
(***************************************************************************)
(* envelope.handleReturn( config, resource, action, x ): renders the       *)
(* handler's outcome into the response the envelope holds; e is the        *)
(* request whose req/res the envelope was built with.                      *)
(***************************************************************************)
handleReturn(e, x) ==
    /\ returned' = [returned EXCEPT ![e] = Append(@, x)]
    /\ headerSent' = [headerSent EXCEPT ![e] = TRUE]

\* Mutant: the envelope is built for the first request and reused afterwards.
getEnvelope_Cached(r) ==
    IF \A q \in Reqs : envelope[q] = 0
    THEN r
    ELSE envelope[CHOOSE q \in Reqs : envelope[q] # 0]

\* meta.getEnvelope( req, res ): a new envelope holding this call's req and res.
getEnvelope(r) == r

\* Mutant: the test of meta.handleErrors is inverted.
respond_InvertedStrategy(r, h, lg, viaPromise) ==
    LET lg1 == Append(lg, "HANDLE")
        env == getEnvelope(r)
    IN
    /\ envelope' = [envelope EXCEPT ![r] = env]
    /\ IF h = "throw" /\ handleErrors
       THEN /\ log' = [log EXCEPT ![r] = lg1]
            /\ pc' = [pc EXCEPT ![r] = "thrown"]
            /\ escaped' = [escaped EXCEPT ![r] =
                               IF viaPromise THEN "unhandled" ELSE "transport"]
            /\ UNCHANGED <<result, returned, headerSent, deferred>>
       ELSE LET res == IF h = "throw" THEN "error" ELSE h IN
            /\ log' = [log EXCEPT ![r] = lg1]
            /\ result' = [result EXCEPT ![r] = res]
            /\ UNCHANGED escaped
            /\ IF Truthy(res)
               THEN IF HasThen(res)
                    THEN /\ deferred' = [deferred EXCEPT ![r] = "pending"]
                         /\ pc' = [pc EXCEPT ![r] = "waiting"]
                         /\ UNCHANGED <<returned, headerSent>>
                    ELSE /\ handleReturn(env, res)
                         /\ pc' = [pc EXCEPT ![r] = "done"]
                         /\ UNCHANGED deferred
               ELSE \* nothing is forwarded: the handler wrote the response itself
                    /\ headerSent' = [headerSent EXCEPT ![r] = TRUE]
                    /\ pc' = [pc EXCEPT ![r] = "done"]
                    /\ UNCHANGED <<returned, deferred>>

(***************************************************************************)
(* respond: invoke the handler (behaviour h) and normalize its result.     *)
(* lg is the request's log so far; viaPromise tells whether respond runs   *)
(* inside the permission promise's callback, where a thrown exception      *)
(* rejects the promise returned by then() instead of reaching the caller   *)
(* of the route callback.                                                  *)
(***************************************************************************)
respond(r, h, lg, viaPromise) ==
    LET lg1 == Append(lg, "HANDLE")
        env == getEnvelope(r)
    IN
    /\ envelope' = [envelope EXCEPT ![r] = env]
    /\ IF h = "throw" /\ ~handleErrors
       THEN /\ log' = [log EXCEPT ![r] = lg1]
            /\ pc' = [pc EXCEPT ![r] = "thrown"]
            /\ escaped' = [escaped EXCEPT ![r] =
                               IF viaPromise THEN "unhandled" ELSE "transport"]
            /\ UNCHANGED <<result, returned, headerSent, deferred>>
       ELSE LET res == IF h = "throw" THEN "error" ELSE h IN
            /\ log' = [log EXCEPT ![r] = lg1]
            /\ result' = [result EXCEPT ![r] = res]
            /\ UNCHANGED escaped
            /\ IF Truthy(res)
               THEN IF HasThen(res)
                    THEN /\ deferred' = [deferred EXCEPT ![r] = "pending"]
                         /\ pc' = [pc EXCEPT ![r] = "waiting"]
                         /\ UNCHANGED <<returned, headerSent>>
                    ELSE /\ handleReturn(env, res)
                         /\ pc' = [pc EXCEPT ![r] = "done"]
                         /\ UNCHANGED deferred
               ELSE \* nothing is forwarded: the handler wrote the response itself
                    /\ headerSent' = [headerSent EXCEPT ![r] = TRUE]
                    /\ pc' = [pc EXCEPT ![r] = "done"]
                    /\ UNCHANGED <<returned, deferred>>

(***************************************************************************)
(* checkPermissionFor: record the attempt, start the timer and call the    *)
(* provider (behaviour p).  A provider that throws makes the call throw,   *)
(* before then() attaches onPermission and onError.                        *)
(***************************************************************************)
checkPermissionFor(r, p, lg) ==
    LET lg1 == Append(lg, "HTTP_AUTHORIZATION_ATTEMPTS") IN
    /\ log' = [log EXCEPT ![r] = lg1]
    /\ IF p = "throws"
       THEN /\ provider' = [provider EXCEPT ![r] = "threw"]
            /\ pc' = [pc EXCEPT ![r] = "thrown"]
            /\ escaped' = [escaped EXCEPT ![r] = "transport"]
       ELSE /\ provider' = [provider EXCEPT ![r] = "pending"]
            /\ pc' = [pc EXCEPT ![r] = "authorizing"]
            /\ UNCHANGED escaped

\* Mutant: the timer is recorded when the listener is set up, not on 'finish'.
RouteCallback_RecordsNow(r, p, h) ==
    /\ wired.done
    /\ pc[r] = "idle"
    /\ apiDuration' = [apiDuration EXCEPT ![r] = @ + 1]
    /\ IF auth
       THEN /\ checkPermissionFor(r, p, authAttempted(log[r]))
            /\ UNCHANGED <<result, envelope, deferred, returned, headerSent>>
       ELSE /\ respond(r, h, log[r], FALSE)
            /\ UNCHANGED provider
    /\ UNCHANGED <<wired, auth, handleErrors, pass, finished, finishListener>>

\* Mutant: the permission check is made whether or not a provider is configured.
RouteCallback_AlwaysChecks(r, p, h) ==
    /\ wired.done
    /\ pc[r] = "idle"
    /\ finishListener' = [finishListener EXCEPT ![r] = TRUE]
    /\ checkPermissionFor(r, p, authAttempted(log[r]))
    /\ UNCHANGED <<result, envelope, deferred, returned, headerSent>>
    /\ UNCHANGED <<wired, auth, handleErrors, pass, finished, apiDuration>>

(***************************************************************************)
(* The route callback of wireupAction, for request r.                      *)
(***************************************************************************)
RouteCallback(r, p, h) ==
    /\ wired.done
    /\ pc[r] = "idle"
    /\ finishListener' = [finishListener EXCEPT ![r] = TRUE]
    /\ IF auth
       THEN /\ checkPermissionFor(r, p, authAttempted(log[r]))
            /\ UNCHANGED <<result, envelope, deferred, returned, headerSent>>
       ELSE /\ respond(r, h, log[r], FALSE)
            /\ UNCHANGED provider
    /\ UNCHANGED <<wired, auth, handleErrors, pass, finished, apiDuration>>

\* The provider's promise settles (the provider's doing, not the adapter's).
ProviderSettles(r, o) ==
    /\ pc[r] = "authorizing"
    /\ provider[r] = "pending"
    /\ provider' = [provider EXCEPT ![r] = o]
    /\ UNCHANGED <<wired, auth, handleErrors, result, envelope,
                   pc, log, pass, deferred, returned,
                   headerSent, finishListener, finished, apiDuration, escaped>>

\* onPermission of checkPermissionFor.
gateOnPermission(r) ==
    /\ pc[r] = "authorizing"
    /\ provider[r] \in {"true", "false"}
    /\ log' = [log EXCEPT ![r] = Append(@, "HTTP_AUTHORIZATION_DURATION")]
    /\ pass' = [pass EXCEPT ![r] = provider[r]]
    /\ pc' = [pc EXCEPT ![r] = "decided"]
    /\ UNCHANGED <<wired, auth, handleErrors, result, envelope,
                   provider, deferred, returned,
                   headerSent, finishListener, finished, apiDuration, escaped>>

\* Mutant: onError rethrows, so the gate's promise rejects.
onError_Rethrows(r) ==
    /\ pc[r] = "authorizing"
    /\ provider[r] = "rejected"
    /\ log' = [log EXCEPT ![r] = @ \o <<"HTTP_AUTHORIZATION_ERRORS",
                                        "HTTP_AUTHORIZATION_DURATION">>]
    /\ pc' = [pc EXCEPT ![r] = "thrown"]
    /\ escaped' = [escaped EXCEPT ![r] = "unhandled"]
    /\ UNCHANGED <<wired, auth, handleErrors, result, envelope, provider,
                   pass, deferred, returned, headerSent, finishListener,
                   finished, apiDuration>>

\* onError of checkPermissionFor.
onError(r) ==
    /\ pc[r] = "authorizing"
    /\ provider[r] = "rejected"
    /\ log' = [log EXCEPT ![r] = @ \o <<"HTTP_AUTHORIZATION_ERRORS",
                                        "HTTP_AUTHORIZATION_DURATION">>]
    /\ pass' = [pass EXCEPT ![r] = "false"]
    /\ pc' = [pc EXCEPT ![r] = "decided"]
    /\ UNCHANGED <<wired, auth, handleErrors, result, envelope,
                   provider, deferred, returned,
                   headerSent, finishListener, finished, apiDuration, escaped>>

\* Mutant: the continuation invokes the handler without looking at pass.
onPermission_IgnoresPass(r, h) ==
    /\ pc[r] = "decided"
    /\ respond(r, h, authGranted(log[r]), TRUE)
    /\ UNCHANGED <<wired, auth, handleErrors, provider, pass, finishListener,
                   finished, apiDuration>>

\* Mutant: the test of res._headerSent is inverted.
onPermission_InvertedGuard(r, h) ==
    /\ pc[r] = "decided"
    /\ IF pass[r] = "true"
       THEN respond(r, h, authGranted(log[r]), TRUE)
       ELSE /\ pc' = [pc EXCEPT ![r] = "denied"]
            /\ IF headerSent[r]
               THEN /\ log' = [log EXCEPT ![r] =
                                   Append(authRejected(@), Forbidden)]
                    /\ headerSent' = [headerSent EXCEPT ![r] = TRUE]
               ELSE /\ log' = [log EXCEPT ![r] = authRejected(@)]
                    /\ UNCHANGED headerSent
            /\ UNCHANGED <<result, envelope, deferred, returned, escaped>>
    /\ UNCHANGED <<wired, auth, handleErrors, provider, pass, finishListener,
                   finished, apiDuration>>

\* Mutant: the 403 is sent without testing res._headerSent.
onPermission_NoGuard(r, h) ==
    /\ pc[r] = "decided"
    /\ IF pass[r] = "true"
       THEN respond(r, h, authGranted(log[r]), TRUE)
       ELSE /\ pc' = [pc EXCEPT ![r] = "denied"]
            /\ log' = [log EXCEPT ![r] = Append(authRejected(@), Forbidden)]
            /\ headerSent' = [headerSent EXCEPT ![r] = TRUE]
            /\ UNCHANGED <<result, envelope, deferred, returned, escaped>>
    /\ UNCHANGED <<wired, auth, handleErrors, provider, pass, finishListener,
                   finished, apiDuration>>

\* onPermission of wireupAction: the continuation of the permission check.
onPermission(r, h) ==
    /\ pc[r] = "decided"
    /\ IF pass[r] = "true"
       THEN respond(r, h, authGranted(log[r]), TRUE)
       ELSE /\ pc' = [pc EXCEPT ![r] = "denied"]
            /\ IF ~headerSent[r]
               THEN /\ log' = [log EXCEPT ![r] =
                                   Append(authRejected(@), Forbidden)]
                    /\ headerSent' = [headerSent EXCEPT ![r] = TRUE]
               ELSE /\ log' = [log EXCEPT ![r] = authRejected(@)]
                    /\ UNCHANGED headerSent
            /\ UNCHANGED <<result, envelope, deferred, returned, escaped>>
    /\ UNCHANGED <<wired, auth, handleErrors, provider, pass, finishListener,
                   finished, apiDuration>>

\* The handler's returned promise fulfils or rejects with x.
DeferredSettles(r, x) ==
    /\ pc[r] = "waiting"
    /\ deferred[r] = "pending"
    /\ deferred' = [deferred EXCEPT ![r] = x]
    /\ UNCHANGED <<wired, auth, handleErrors, result, envelope,
                   pc, log, provider, pass, returned,
                   headerSent, finishListener, finished, apiDuration, escaped>>

\* Mutant: onResult is attached for fulfilment only; a rejection is unhandled.
onResult_FulfilOnly(r) ==
    /\ pc[r] = "waiting"
    /\ deferred[r] \in SettledValues
    /\ IF deferred[r] = "error"
       THEN /\ pc' = [pc EXCEPT ![r] = "thrown"]
            /\ escaped' = [escaped EXCEPT ![r] = "unhandled"]
            /\ UNCHANGED <<returned, headerSent>>
       ELSE /\ handleReturn(envelope[r], deferred[r])
            /\ pc' = [pc EXCEPT ![r] = "done"]
            /\ UNCHANGED escaped
    /\ UNCHANGED <<wired, auth, handleErrors, result, envelope,
                   log, provider, pass, deferred,
                   finishListener, finished, apiDuration>>

\* onResult of respond, attached for fulfilment and for rejection alike.
onResult(r) ==
    /\ pc[r] = "waiting"
    /\ deferred[r] \in SettledValues
    /\ handleReturn(envelope[r], deferred[r])
    /\ pc' = [pc EXCEPT ![r] = "done"]
    /\ UNCHANGED <<wired, auth, handleErrors, result, envelope,
                   log, provider, pass, deferred,
                   finishListener, finished, apiDuration, escaped>>

(***************************************************************************)
(* Something other than the adapter (a middleware, a timeout) answers the  *)
(* request while its permission check is outstanding: the case the         *)
(* res._headerSent test of the denial path is there for.                   *)
(***************************************************************************)
ExternalSend(r) ==
    /\ pc[r] \in {"authorizing", "decided"}
    /\ ~headerSent[r]
    /\ headerSent' = [headerSent EXCEPT ![r] = TRUE]
    /\ UNCHANGED <<wired, auth, handleErrors, result, envelope,
                   pc, log, provider, pass, deferred,
                   returned, finishListener, finished, apiDuration, escaped>>

\* The response emits 'finish'; the once-listener records the timer.
Finish(r) ==
    /\ headerSent[r]
    /\ ~finished[r]
    /\ finished' = [finished EXCEPT ![r] = TRUE]
    /\ IF finishListener[r]
       THEN /\ apiDuration' = [apiDuration EXCEPT ![r] = @ + 1]
            /\ finishListener' = [finishListener EXCEPT ![r] = FALSE]
       ELSE UNCHANGED <<apiDuration, finishListener>>
    /\ UNCHANGED <<wired, auth, handleErrors, result, envelope,
                   pc, log, provider, pass, deferred,
                   returned, headerSent, escaped>>

Next ==
    \E r \in Reqs :
        \/ \E p \in ProviderBehaviours, h \in HandlerBehaviours :
               RouteCallback(r, p, h)
        \/ \E o \in ProviderOutcomes : ProviderSettles(r, o)
        \/ gateOnPermission(r)
        \/ onError(r)
        \/ \E h \in HandlerBehaviours : onPermission(r, h)
        \/ \E x \in SettledValues : DeferredSettles(r, x)
        \/ onResult(r)
        \/ ExternalSend(r)
        \/ Finish(r)

Spec == Init /\ [][Next]_vars

(***************************************************************************)
(* Wiring on its own: an action is wired from any of the inputs, before    *)
(* any request.                                                            *)
(***************************************************************************)
UrlInit ==
    /\ wired \in WiringInputs
    /\ auth = FALSE
    /\ handleErrors = FALSE
    /\ pc = [r \in Reqs |-> "idle"]
    /\ log = [r \in Reqs |-> <<>>]
    /\ provider = [r \in Reqs |-> "none"]
    /\ pass = [r \in Reqs |-> "none"]
    /\ result = [r \in Reqs |-> "none"]
    /\ envelope = [r \in Reqs |-> 0]
    /\ deferred = [r \in Reqs |-> "none"]
    /\ returned = [r \in Reqs |-> <<>>]
    /\ headerSent = [r \in Reqs |-> FALSE]
    /\ finishListener = [r \in Reqs |-> FALSE]
    /\ finished = [r \in Reqs |-> FALSE]
    /\ apiDuration = [r \in Reqs |-> 0]
    /\ escaped = [r \in Reqs |-> "none"]

wireupAction ==
    /\ ~wired.done
    /\ wired' = wire(wired)
    /\ UNCHANGED <<auth, handleErrors, pc, log, provider, pass, result,
                   envelope, deferred, returned, headerSent, finishListener,
                   finished, apiDuration, escaped>>

UrlNext == wireupAction

UrlSpec == UrlInit /\ [][UrlNext]_vars

(***************************************************************************)
(* Callbacks of settled promises and the 'finish' event of an answered     *)
(* response are run by the event loop; when (and whether) the provider's   *)
(* or the handler's promise settles, and when requests arrive, is not up   *)
(* to the adapter.                                                         *)
(***************************************************************************)
FairSpec ==
    /\ Spec
    /\ \A r \in Reqs :
          /\ WF_vars(gateOnPermission(r))
          /\ WF_vars(onError(r))
          /\ WF_vars(\E h \in HandlerBehaviours : onPermission(r, h))
          /\ WF_vars(onResult(r))
          /\ WF_vars(Finish(r))

TypeOK ==
    /\ wired.done \in BOOLEAN
    /\ auth \in BOOLEAN
    /\ handleErrors \in BOOLEAN
    /\ pc \in [Reqs -> {"idle", "authorizing", "decided", "denied",
                        "waiting", "done", "thrown"}]
    /\ provider \in [Reqs -> {"none", "pending", "threw"} \cup ProviderOutcomes]
    /\ pass \in [Reqs -> {"none", "true", "false"}]
    /\ result \in [Reqs -> {"none", "error"} \cup (HandlerBehaviours \ {"throw"})]
    /\ envelope \in [Reqs -> {0} \cup Reqs]
    /\ deferred \in [Reqs -> {"none", "pending"} \cup SettledValues]
    /\ headerSent \in [Reqs -> BOOLEAN]
    /\ finishListener \in [Reqs -> BOOLEAN]
    /\ finished \in [Reqs -> BOOLEAN]
    /\ apiDuration \in [Reqs -> 0..2]
    /\ escaped \in [Reqs -> {"none", "transport", "unhandled"}]

----------------------------------------------------------------------------
\* C1: with a provider configured, a request's handler has been invoked only
\* if that request's own permission check settled granted; a request whose
\* check was denied (or failed) has no handler invocation.
C1_HandlerOnlyAfterGrant ==
    auth => \A r \in Reqs :
        /\ handlerCalls(r) > 0 => provider[r] = "true" /\ pass[r] = "true"
        /\ pass[r] = "false" => handlerCalls(r) = 0
        /\ provider[r] \in {"false", "rejected", "threw"} => handlerCalls(r) = 0

C1_Witness ==
    /\ auth
    /\ \E r1, r2 \in Reqs :
          /\ handlerCalls(r1) = 1 /\ provider[r1] = "true"
          /\ pc[r2] = "denied" /\ provider[r2] = "false"

\* C2: a request whose provider check failed (rejected promise or synchronous
\* throw) ends like a denied one: no handler call, one reject record, one
\* authorization-error record, and the response answered with at most one 403.
C2_FailureIsDenial ==
    \A r \in Reqs :
        (provider[r] \in {"rejected", "threw"}
             /\ pc[r] \notin {"authorizing", "decided"})
        => /\ handlerCalls(r) = 0
           /\ rejects(r) = 1
           /\ authErrors(r) = 1
           /\ headerSent[r]
           /\ forbidden(r) <= 1

\* C3: every request received on a route with a provider has recorded
\* HTTP_AUTHORIZATION_ATTEMPTS exactly once.
C3_AttemptRecordedOnce ==
    auth => \A r \in Reqs : pc[r] # "idle" => attempts(r) = 1

\* C4: a request whose check resolved to true records no reject and gets no
\* 403; before the continuation runs it has no grant and no handler call, and
\* from then on exactly one grant and exactly one handler call.
C4_GrantedRunsHandlerOnce ==
    \A r \in Reqs :
        provider[r] = "true" =>
            /\ rejects(r) = 0
            /\ forbidden(r) = 0
            /\ IF pc[r] \in {"authorizing", "decided"}
               THEN handlerCalls(r) = 0 /\ grants(r) = 0
               ELSE handlerCalls(r) = 1 /\ grants(r) = 1

C4_Witness ==
    \E r \in Reqs :
        /\ provider[r] = "true"
        /\ pc[r] = "done"
        /\ handlerCalls(r) = 1
        /\ grants(r) = 1

\* C5: a request whose check resolved to false never has its handler invoked
\* nor a grant recorded, records the reject exactly once (when denied), and
\* when the denial finds no response sent yet it sends the fixed 403, once.
C5_DeniedSends403Once ==
    /\ [](\A r \in Reqs :
            provider[r] = "false" =>
                /\ handlerCalls(r) = 0
                /\ grants(r) = 0
                /\ forbidden(r) <= 1
                /\ rejects(r) = IF pc[r] = "denied" THEN 1 ELSE 0)
    /\ [][\A r \in Reqs :
            (provider[r] = "false" /\ pc[r] = "decided" /\ pc'[r] = "denied"
                 /\ ~headerSent[r])
            => /\ forbidden(r)' = 1
               /\ log'[r][Len(log'[r])] = Forbidden
               /\ headerSent'[r]]_vars

C5_Witness ==
    \E r \in Reqs :
        /\ provider[r] = "false"
        /\ pc[r] = "denied"
        /\ rejects(r) = 1
        /\ forbidden(r) = 1

\* C6 (as claimed): the timer is never recorded twice, and every received
\* request whose exception did not go to the transport eventually has its
\* HTTP_API_DURATION timer recorded.
C6_EveryRequestRecordsTimer ==
    /\ [](\A r \in Reqs : apiDuration[r] <= 1)
    /\ \A r \in Reqs :
          (pc[r] # "idle") ~> (apiDuration[r] = 1 \/ escaped[r] # "none")

\* C6 (amended): the timer of a request is recorded exactly once when its
\* response has finished and not at all before, whichever branch was taken.
C6_TimerOncePerFinishedResponse ==
    \A r \in Reqs : apiDuration[r] = IF finished[r] THEN 1 ELSE 0

C6_Witness ==
    \E r \in Reqs :
        /\ auth
        /\ pc[r] = "done"
        /\ deferred[r] \in SettledValues
        /\ finished[r]
        /\ apiDuration[r] = 1

\* C7: in each request's own order of events, every grant or reject record has
\* an attempt record before it and every handler invocation has a grant record
\* before it, whatever the other requests do in between.
C7_CounterOrder ==
    auth => \A r \in Reqs :
        \A i \in DOMAIN log[r] :
            /\ log[r][i] \in {"HTTP_AUTHORIZATION_GRANTED",
                              "HTTP_AUTHORIZATION_REJECTED"}
               => \E j \in 1..(i - 1) :
                      log[r][j] = "HTTP_AUTHORIZATION_ATTEMPTS"
            /\ log[r][i] = "HANDLE"
               => \E j \in 1..(i - 1) :
                      log[r][j] = "HTTP_AUTHORIZATION_GRANTED"

C7_Witness ==
    /\ auth
    /\ \E r1, r2 \in Reqs :
          /\ r1 # r2
          /\ handlerCalls(r1) = 1 /\ grants(r1) = 1
          /\ handlerCalls(r2) = 1 /\ grants(r2) = 1

\* C8: without a provider, a request that has entered the route callback has
\* already had its handler invoked (the call is made inside the callback), and
\* no authorization counter is recorded and no 403 is sent.
C8_NoProviderDirect ==
    ~auth => \A r \in Reqs :
        /\ pc[r] # "idle" => handlerCalls(r) = 1
        /\ attempts(r) = 0
        /\ grants(r) = 0
        /\ rejects(r) = 0
        /\ authErrors(r) = 0
        /\ forbidden(r) = 0
        /\ provider[r] = "none"

C8_Witness ==
    /\ ~auth
    /\ \E r \in Reqs : pc[r] = "done" /\ handlerCalls(r) = 1 /\ log[r] = <<"HANDLE">>

\* C9: the denial step always records the reject counter; it sends the 403
\* exactly when no response was sent before it, so a response already sent is
\* not answered a second time and no request gets two 403s.
C9_DenialNeverSendsTwice ==
    /\ [](\A r \in Reqs : forbidden(r) <= 1)
    /\ [][\A r \in Reqs :
            (pc[r] = "decided" /\ pc'[r] = "denied")
            => /\ rejects(r)' = rejects(r) + 1
               /\ forbidden(r)' = IF headerSent[r] THEN 0 ELSE 1]_vars

C9_Witness ==
    \E r \in Reqs :
        /\ pc[r] = "denied"
        /\ rejects(r) = 1
        /\ forbidden(r) = 0
        /\ headerSent[r]

\* C10: when the handler returned a deferred value, handleReturn has been
\* called not at all while it is pending and exactly once, with the settled
\* value, after onResult ran, for fulfilment and rejection alike; no exception
\* escapes.
C10_DeferredForwardedOnce ==
    \A r \in Reqs :
        deferred[r] # "none" =>
            /\ escaped[r] = "none"
            /\ pc[r] \in {"waiting", "done"}
            /\ returned[r] = IF pc[r] = "done" THEN <<deferred[r]>> ELSE <<>>

C10_Witness ==
    \E r \in Reqs :
        /\ deferred[r] = "error"
        /\ pc[r] = "done"
        /\ returned[r] = <<"error">>

\* C11: a handler's plain return value other than nothing is forwarded to
\* handleReturn exactly once and as it is; when the handler returns nothing,
\* handleReturn is not called.
C11_PlainValueForwarded ==
    \A r \in Reqs :
        /\ result[r] \in {"falsy", "data"} => returned[r] = <<result[r]>>
        /\ result[r] = "undefined" => returned[r] = <<>>

\* C12: under the absorb strategy no exception of the handler leaves the
\* dispatcher, and an error the handler threw is the outcome given to
\* handleReturn, exactly once.
C12_AbsorbedThrowIsOutcome ==
    handleErrors => \A r \in Reqs :
        /\ handlerCalls(r) > 0 => escaped[r] = "none" /\ pc[r] # "thrown"
        /\ result[r] = "error" => returned[r] = <<"error">> /\ pc[r] = "done"

C12_Witness ==
    \E r \in Reqs :
        /\ handleErrors
        /\ handlerCalls(r) = 1
        /\ result[r] = "error"
        /\ returned[r] = <<"error">>

\* C13: under the propagate strategy an exception thrown by the handler
\* reaches the transport that called the route callback, with or without a
\* provider, and handleReturn is not called.
C13_PropagatedThrowReachesTransport ==
    ~handleErrors => \A r \in Reqs :
        (handlerCalls(r) = 1 /\ pc[r] = "thrown")
        => escaped[r] = "transport" /\ returned[r] = <<>>

\* An action wired by the default heuristic: a string url and no strategy.
ByDefaultHeuristic == wired.done /\ ~wired.isRegExp /\ ~wired.hasStrategy

C15_PrefixAddedUnlessCarried ==
    (wired.done /\ wired.hasStrategy /\ ~wired.isRegExp) =>
        LET prefix == apiPrefix(wired)
            carried == IndexOf(wired.strategyUrl, buildUrl(<<prefix>>)) = 0
        IN wired.url = IF carried
                       THEN buildUrl(<<wired.strategyUrl>>)
                       ELSE buildUrl(<<prefix, wired.strategyUrl>>)

\* C16: every call of the gate ends with its promise resolved, to "true" when
\* the provider's check resolved true and to "false" when it resolved false,
\* rejected or threw, and with HTTP_AUTHORIZATION_DURATION recorded once.
C16_GateAlwaysResolves ==
    \A r \in Reqs :
        (provider[r] = "threw" \/ pass[r] # "none")
        => /\ pass[r] = IF provider[r] = "true" THEN "true" ELSE "false"
           /\ authDurations(r) = 1

\* C17: with requests in flight together, once a request's continuation has
\* run its handler was invoked if and only if its own check was granted, the
\* envelope of its handler holds its own req and res, a 403 is on its response
\* only if its own check was denied, and only its own handler's outcome is
\* rendered into its response.
C17_OutcomeIsOwnDecision ==
    auth => \A r \in Reqs :
        /\ pc[r] \notin {"idle", "authorizing", "decided"}
           => (handlerCalls(r) = 1 <=> pass[r] = "true")
        /\ handlerCalls(r) > 0 => envelope[r] = r
        /\ forbidden(r) > 0 => pass[r] = "false" /\ handlerCalls(r) = 0
        /\ Len(returned[r]) <= handlerCalls(r)

C17_Witness ==
    /\ auth
    /\ \E r1, r2 \in Reqs :
          /\ r1 # r2
          /\ pass[r1] = "true" /\ envelope[r1] = r1 /\ returned[r1] # <<>>
          /\ pass[r2] = "false" /\ forbidden(r2) = 1

\* C18: while the provider's promise of a request is pending the request is
\* still authorizing, with no handler call, no grant, no reject and no 403;
\* a settled promise stays as it settled, and from some point on every request
\* whose promise has settled is denied or has had its handler invoked (so each
\* of them eventually gets there), and never both.
C18_PendingUntilSettled ==
    /\ [](\A r \in Reqs :
            provider[r] = "pending" =>
                /\ pc[r] = "authorizing"
                /\ handlerCalls(r) = 0
                /\ grants(r) = 0
                /\ rejects(r) = 0
                /\ forbidden(r) = 0)
    /\ [](\A r \in Reqs : ~(pc[r] = "denied" /\ handlerCalls(r) > 0))
    /\ [][\A r \in Reqs :
            provider[r] \in ProviderOutcomes => provider'[r] = provider[r]]_vars
    /\ <>[](\A r \in Reqs :
              provider[r] \in ProviderOutcomes
              => (pc[r] = "denied" \/ handlerCalls(r) = 1))

C18_Witness ==
    \E r1, r2 \in Reqs :
        /\ provider[r1] = "pending" /\ pc[r1] = "authorizing"
        /\ provider[r2] = "rejected" /\ pc[r2] = "denied"

\* C19: a request never has both a grant and a reject recorded nor either one
\* twice; before its continuation has run it has neither, and afterwards it
\* has exactly the one of its decision.
C19_GrantXorReject ==
    auth => \A r \in Reqs :
        /\ grants(r) + rejects(r) <= 1
        /\ IF pass[r] = "none" \/ pc[r] = "decided"
           THEN grants(r) = 0 /\ rejects(r) = 0
           ELSE IF pass[r] = "true"
           THEN grants(r) = 1 /\ rejects(r) = 0
           ELSE grants(r) = 0 /\ rejects(r) = 1

C19_Witness ==
    \E r1, r2 \in Reqs :
        /\ grants(r1) = 1 /\ rejects(r1) = 0
        /\ rejects(r2) = 1 /\ grants(r2) = 0 /\ authErrors(r2) = 1

====
